---------------------------- MODULE Spec2Model ----------------------------
(***************************************************************************)
(* Model of pyinfra/facts/files.py: the file facts (File, Link, Directory, *)
(* Socket, Sha1File, Sha256File, Md5File, FindInFile), each a command      *)
(* builder and an output parser.                                           *)
(*                                                                         *)
(* Python strings are tuples of one-character strings, so that split,      *)
(* strip, slicing, regular-expression matching and int() are computed      *)
(* character by character as the code computes them.  Python values are    *)
(* tagged records.  A raised exception is the result Raise(<name>).        *)
(***************************************************************************)
EXTENDS Integers, Sequences, FiniteSets, TLC

VARIABLES
    fact,    \* the fact instance the callers share (one registry instance per class)
    name,    \* the instance attribute self.name of that instance
    call,    \* per caller: where it is in command() -> execute -> process()
    modeIn,  \* argument of _parse_mode
    modeOut, \* value _parse_mode returned
    sh       \* the shell evaluating the command File.command() built

vars == <<fact, name, call, modeIn, modeOut, sh>>

-----------------------------------------------------------------------------
(* Python values *)

None == [tag |-> "None"]
False == [tag |-> "False"]
Raise(e) == [tag |-> "raise", exc |-> e]
PyStr(s) == [tag |-> "str", val |-> s]
PyInt(n) == [tag |-> "int", val |-> n]
PyList(l) == [tag |-> "list", val |-> l]
PyDict(d) == [tag |-> "dict", val |-> d]
PyDatetime(n) == [tag |-> "datetime", epoch |-> n]

-----------------------------------------------------------------------------
(* str methods *)

Digits == {"0", "1", "2", "3", "4", "5", "6", "7", "8", "9"}

Lower ==
    {"a", "b", "c", "d", "e", "f", "g", "h", "i", "j", "k", "l", "m",
     "n", "o", "p", "q", "r", "s", "t", "u", "v", "w", "x", "y", "z"}

Upper ==
    {"A", "B", "C", "D", "E", "F", "G", "H", "I", "J", "K", "L", "M",
     "N", "O", "P", "Q", "R", "S", "T", "U", "V", "W", "X", "Y", "Z"}

\* the regular-expression class [a-zA-Z0-9]
Alnum == Lower \cup Upper \cup Digits

\* the characters str.split(None) and the class \s treat as whitespace
Whitespace == {" ", "\t"}

Rep(c, n) == [i \in 1..n |-> c]

\* s[a:b] with Python's saturating bounds (0 <= a <= b)
Slice(s, a, b) ==
    LET hi == IF b > Len(s) THEN Len(s) ELSE b
    IN  IF a >= hi THEN <<>> ELSE SubSeq(s, a + 1, hi)

\* s.split(sep) for a non-empty separator
RECURSIVE SplitFrom(_, _, _, _)
SplitFrom(s, sep, i, start) ==
    IF i + Len(sep) - 1 > Len(s)
    THEN <<SubSeq(s, start, Len(s))>>
    ELSE IF SubSeq(s, i, i + Len(sep) - 1) = sep
         THEN <<SubSeq(s, start, i - 1)>>
                  \o SplitFrom(s, sep, i + Len(sep), i + Len(sep))
         ELSE SplitFrom(s, sep, i + 1, start)

SplitOn(s, sep) == SplitFrom(s, sep, 1, 1)

\* first index >= i of s that is not whitespace (Len(s) + 1 when none)
RECURSIVE SkipSpace(_, _)
SkipSpace(s, i) ==
    IF i <= Len(s) /\ s[i] \in Whitespace THEN SkipSpace(s, i + 1) ELSE i

\* first index >= i of s that is whitespace (Len(s) + 1 when none)
RECURSIVE SkipWord(_, _)
SkipWord(s, i) ==
    IF i <= Len(s) /\ s[i] \notin Whitespace THEN SkipWord(s, i + 1) ELSE i

\* s.split(None, maxsplit): runs of whitespace separate the words, leading
\* whitespace is dropped, and after maxsplit splits the rest of the string
\* (leading whitespace dropped, trailing kept) is the last word
RECURSIVE SplitWSFrom(_, _, _)
SplitWSFrom(s, i, left) ==
    LET b == SkipSpace(s, i)
    IN  IF b > Len(s) THEN <<>>
        ELSE IF left = 0 THEN <<SubSeq(s, b, Len(s))>>
        ELSE LET e == SkipWord(s, b)
             IN  <<SubSeq(s, b, e - 1)>> \o SplitWSFrom(s, e, left - 1)

SplitWS(s, maxsplit) == SplitWSFrom(s, 1, maxsplit)

\* s.strip(chars)
RECURSIVE LStrip(_, _)
LStrip(s, chars) ==
    IF s # <<>> /\ s[1] \in chars THEN LStrip(Tail(s), chars) ELSE s

RECURSIVE RStrip(_, _)
RStrip(s, chars) ==
    IF s # <<>> /\ s[Len(s)] \in chars
    THEN RStrip(SubSeq(s, 1, Len(s) - 1), chars)
    ELSE s

Strip(s, chars) == RStrip(LStrip(s, chars), chars)

DigitValue(c) == CHOOSE n \in 0..9 : <<"0", "1", "2", "3", "4", "5", "6", "7", "8", "9">>[n + 1] = c

\* int(s) for a non-empty string of decimal digits
RECURSIVE DecimalValue(_)
DecimalValue(s) ==
    IF s = <<>> THEN 0
    ELSE 10 * DecimalValue(SubSeq(s, 1, Len(s) - 1)) + DigitValue(s[Len(s)])

IsDecimal(s) == s # <<>> /\ \A i \in 1..Len(s) : s[i] \in Digits

\* pyinfra.api.util.try_int: int(value), or the value itself when int() fails
try_int(value) ==
    IF IsDecimal(value) THEN PyInt(DecimalValue(value)) ELSE PyStr(value)

\* pyinfra.api.connectors.util.escape_unix_path: a backslash before each space
RECURSIVE escape_unix_path(_)
escape_unix_path(path) ==
    IF path = <<>> THEN <<>>
    ELSE IF Head(path) = " "
         THEN <<"\\", " ">> \o escape_unix_path(Tail(path))
         ELSE <<Head(path)>> \o escape_unix_path(Tail(path))

-----------------------------------------------------------------------------
(* re.match, for the patterns of the checksum facts.  A pattern is a tuple  *)
(* of atoms; the path is interpolated into it unquoted (regex % self.name), *)
(* so the characters of the path are compiled as pattern syntax.            *)

Lit(c) == [k |-> "lit", c |-> c]
AnyChar == [k |-> "any"]                 \* .
Spaces == [k |-> "spaces"]               \* \s+
Group(n) == [k |-> "group", n |-> n]     \* ([a-zA-Z0-9]{n})

LitSeq(s) == [i \in 1..Len(s) |-> Lit(s[i])]

\* the path as the regular-expression compiler reads it: '.' is any
\* character, a backslash quotes the character after it, every other
\* character of the path alphabet stands for itself
RECURSIVE PathRegex(_)
PathRegex(p) ==
    IF p = <<>> THEN <<>>
    ELSE IF Head(p) = "\\" /\ Len(p) >= 2
         THEN <<Lit(p[2])>> \o PathRegex(SubSeq(p, 3, Len(p)))
         ELSE IF Head(p) = "."
              THEN <<AnyChar>> \o PathRegex(Tail(p))
              ELSE <<Lit(Head(p))>> \o PathRegex(Tail(p))

\* number of whitespace characters of s starting at index j
SpaceRun(s, j) == SkipSpace(s, j) - j

\* the match of atoms i.. of re against s from index j, anchored at both
\* ends (^...$; output lines hold no newline): <<>> when there is none,
\* else <<group(1)>>
RECURSIVE ReMatch(_, _, _, _, _)
RECURSIVE ReSpaces(_, _, _, _, _, _)
ReMatch(re, i, s, j, cap) ==
    IF i > Len(re)
    THEN IF j = Len(s) + 1 THEN <<cap>> ELSE <<>>
    ELSE LET a == re[i]
         IN  CASE a.k = "lit" ->
                    IF j <= Len(s) /\ s[j] = a.c
                    THEN ReMatch(re, i + 1, s, j + 1, cap)
                    ELSE <<>>
               [] a.k = "any" ->
                    IF j <= Len(s)
                    THEN ReMatch(re, i + 1, s, j + 1, cap)
                    ELSE <<>>
               [] a.k = "group" ->
                    IF /\ j + a.n - 1 <= Len(s)
                       /\ \A t \in j..(j + a.n - 1) : s[t] \in Alnum
                    THEN ReMatch(re, i + 1, s, j + a.n, SubSeq(s, j, j + a.n - 1))
                    ELSE <<>>
               [] a.k = "spaces" ->
                    ReSpaces(re, i, s, j, cap, SpaceRun(s, j))

\* \s+ is greedy: the longest run first, then shorter ones
ReSpaces(re, i, s, j, cap, n) ==
    IF n < 1 THEN <<>>
    ELSE LET r == ReMatch(re, i + 1, s, j + n, cap)
         IN  IF r # <<>> THEN r ELSE ReSpaces(re, i, s, j, cap, n - 1)

re_match(re, s) == ReMatch(re, 1, s, 1, <<>>)

-----------------------------------------------------------------------------
(* The facts *)

StatFacts == {"File", "Link", "Directory", "Socket"}
ChecksumFacts == {"Sha1File", "Sha256File", "Md5File"}
NamedFacts == ChecksumFacts \cup {"FindInFile"}   \* the facts whose command() sets self.name
Facts == StatFacts \cup NamedFacts

FLAG_TO_TYPE ==
    [flag \in {"b", "c", "d", "l", "s", "p", "-"} |->
        CASE flag = "b" -> "block"
          [] flag = "c" -> "character"
          [] flag = "d" -> "directory"
          [] flag = "l" -> "link"
          [] flag = "s" -> "socket"
          [] flag = "p" -> "fifo"
          [] flag = "-" -> "file"]

SYMBOL_TO_OCTAL_PERMISSIONS_swapped ==
    (<<"r","w","x">> :> "7") @@ (<<"r","w","-">> :> "6") @@ (<<"r","-","x">> :> "3") @@ (<<"r","-","-">> :> "4")
        @@ (<<"-","w","x">> :> "5") @@ (<<"-","w","-">> :> "2") @@ (<<"-","-","x">> :> "1")

SYMBOL_TO_OCTAL_PERMISSIONS ==
    (<<"r","w","x">> :> "7") @@ (<<"r","w","-">> :> "6") @@ (<<"r","-","x">> :> "5") @@ (<<"r","-","-">> :> "4")
        @@ (<<"-","w","x">> :> "3") @@ (<<"-","w","-">> :> "2") @@ (<<"-","-","x">> :> "1")

\* the loop body of _parse_mode: one group appended to result
ParseModeGroup(result, group) ==
    IF group \in DOMAIN SYMBOL_TO_OCTAL_PERMISSIONS
    THEN result \o <<SYMBOL_TO_OCTAL_PERMISSIONS[group]>>
    ELSE result \o <<"0">>

_parse_mode_four_groups(mode) ==
    DecimalValue(
        ParseModeGroup(
            ParseModeGroup(
                ParseModeGroup(
                    ParseModeGroup(<<>>, Slice(mode, 0, 3)),
                    Slice(mode, 3, 6)),
                Slice(mode, 6, 9)),
            Slice(mode, 9, 12)))

_parse_mode(mode) ==
    DecimalValue(
        ParseModeGroup(
            ParseModeGroup(
                ParseModeGroup(<<>>, Slice(mode, 0, 3)),
                Slice(mode, 3, 6)),
            Slice(mode, 6, 9)))

\* the class attribute `type` of the stat facts
type(f) ==
    CASE f = "File" -> "file"
      [] f = "Link" -> "link"
      [] f = "Directory" -> "directory"
      [] f = "Socket" -> "socket"

EmptyDict == [k \in {} |-> None]

\* one turn of the loop of File.process over stat_bits; st is
\* [data, path_type, exc], exc the exception raised so far ("" for none)
StatBit(st, bit) ==
    LET kv == SplitOn(bit, <<"=">>)
    IN  IF Len(kv) # 2
        THEN [st EXCEPT !.exc = "ValueError"]        \* key, value = bit.split('=')
        ELSE LET key == kv[1]
                 value == kv[2]
             IN  IF key = <<"m","o","d","e">>
                 THEN IF value = <<>>
                      THEN [st EXCEPT !.exc = "IndexError"]          \* value[0]
                      ELSE IF value[1] \notin DOMAIN FLAG_TO_TYPE
                      THEN [st EXCEPT !.exc = "KeyError"]            \* FLAG_TO_TYPE[...]
                      ELSE [st EXCEPT
                                !.path_type = FLAG_TO_TYPE[value[1]],
                                !.data = (key :> PyInt(_parse_mode(Tail(value)))) @@ @]
                 ELSE IF key = <<"s","i","z","e">>
                 THEN [st EXCEPT !.data = (key :> try_int(value)) @@ @]
                 ELSE IF key \in {<<"a","t","i","m","e">>, <<"m","t","i","m","e">>, <<"c","t","i","m","e">>}
                 THEN LET v == try_int(value)
                      IN  [st EXCEPT !.data =
                              (key :> IF v.tag = "int" THEN PyDatetime(v.val) ELSE v) @@ @]
                 ELSE [st EXCEPT !.data = (key :> PyStr(value)) @@ @]

RECURSIVE StatBits(_, _)
StatBits(st, bits) ==
    IF bits = <<>> \/ st.exc # "" THEN st
    ELSE StatBits(StatBit(st, Head(bits)), Tail(bits))

link_target_rstrip_one(target) ==
    IF target # <<>> /\ target[Len(target)] = "'"
    THEN SubSeq(target, 1, Len(target) - 1)
    ELSE target

\* target.strip("'")
link_target(target) == Strip(target, {"'"})

\* the tail of File.process for a link
LinkData(data, filename) ==
    LET halves == SplitOn(filename, <<" ","-",">"," ">>)
    IN  IF Len(halves) # 2
        THEN Raise("ValueError")                     \* filename, target = ...
        ELSE PyDict((<<"l","i","n","k","_","t","a","r","g","e","t">> :> PyStr(link_target(halves[2]))) @@ data)

\* File.process of a fact whose class attribute type is selftype
File_process(selftype, output) ==
    IF output = <<>> THEN Raise("IndexError")        \* output[0]
    ELSE LET parts == SplitWS(output[1], 7)
         IN  IF parts = <<>> THEN Raise("IndexError")    \* stat_bits[-1]
             ELSE LET stat_bits == SubSeq(parts, 1, Len(parts) - 1)
                      filename == parts[Len(parts)]
                      st == StatBits([data |-> EmptyDict, path_type |-> "None", exc |-> ""],
                                     stat_bits)
                  IN  IF st.exc # "" THEN Raise(st.exc)
                      ELSE IF st.path_type # selftype THEN False
                      ELSE IF st.path_type = "link" THEN LinkData(st.data, filename)
                      ELSE PyDict(st.data)

Sha1HexLen == 40
Sha256HexLen == 64
Md5HexLen == 32

\* a pattern with one %s: the atoms before it and the atoms after it
Sha1File_regexes ==
    << [pre |-> <<Group(Sha1HexLen), Spaces>>, post |-> <<>>],
       [pre |-> LitSeq(<<"S","H","A","1">>) \o <<Spaces, Lit("(")>>,
        post |-> <<Lit(")"), Spaces, Lit("="), Spaces, Group(Sha1HexLen)>>] >>

Sha256File_regexes ==
    << [pre |-> <<Group(Sha256HexLen), Spaces>>, post |-> <<>>],
       [pre |-> LitSeq(<<"S","H","A","2","5","6">>) \o <<Spaces, Lit("(")>>,
        post |-> <<Lit(")"), Spaces, Lit("="), Spaces, Group(Sha256HexLen)>>] >>

Md5File_regexes ==
    << [pre |-> <<Group(Md5HexLen), Spaces>>, post |-> <<>>],
       [pre |-> LitSeq(<<"S","H","A","2","5","6">>) \o <<Spaces, Lit("(")>>,
        post |-> <<Lit(")"), Spaces, Lit("="), Spaces, Group(Md5HexLen)>>] >>

_regexes(f) ==
    CASE f = "Sha1File" -> Sha1File_regexes
      [] f = "Sha256File" -> Sha256File_regexes
      [] f = "Md5File" -> Md5File_regexes

\* regex % self.name
Interpolate(regex, selfname) == regex.pre \o PathRegex(selfname) \o regex.post

\* the loop of Sha1File.process (Sha256File.process and Md5File.process are
\* the same text): the first pattern that matches returns its group, and
\* falling off the end returns None
RECURSIVE FirstMatch(_, _, _)
FirstMatch(regexes, selfname, line) ==
    IF regexes = <<>> THEN None
    ELSE LET matches == re_match(Interpolate(Head(regexes), selfname), line)
         IN  IF matches # <<>> THEN PyStr(matches[1])
             ELSE FirstMatch(Tail(regexes), selfname, line)

Checksum_process(f, selfname, output) ==
    IF output = <<>> THEN Raise("IndexError")        \* output[0]
    ELSE FirstMatch(_regexes(f), selfname, output[1])

\* '__pyinfra_exists_{0}'.format(name)
Sentinel(n) == <<"_","_","p","y","i","n","f","r","a","_","e","x","i","s","t","s","_">> \o n

FindInFile_process(selfname, output) ==
    IF output # <<>> /\ output[1] = Sentinel(selfname)
    THEN PyList(<<>>)
    ELSE PyList(output)

\* fact.process(output) of the instance f whose attribute self.name is selfname
process(f, selfname, output) ==
    IF f \in StatFacts THEN File_process(type(f), output)
    ELSE IF f \in ChecksumFacts THEN Checksum_process(f, selfname, output)
    ELSE FindInFile_process(selfname, output)

-----------------------------------------------------------------------------
(* Inputs *)

\* the paths callers ask about: one holds a character that is special in a
\* regular expression, one differs from it in that character only, one
\* holds a space
Paths == {<<"/","a",".","b">>, <<"/","a","X","b">>, <<"/","a"," ","b">>}

MaxLines == 2      \* longest output of the search command

Flags == DOMAIN FLAG_TO_TYPE

Perms == {<<"r","w","x","r","-","x","r","-","-">>, <<"r","w","x","r","w","x","r","w","x">>, <<"r","w","-","r","-","-","-","-","-">>, <<"-","-","-","-","-","-","-","-","-">>, <<"r","w","s","-","-","x","-","-","t">>}

\* the name field (%N, %N%SY) of a stat line that is not a link: plain,
\* quoted, and a file whose own name holds " -> "
FileNames == {<<"/","a">>, <<"'","/","a","'">>, <<"/","x"," ","-",">"," ","y">>}

\* the name field of a link: as BSD stat prints it, with the trailing quote
\* some print, as GNU stat prints it, and a link whose own name holds " -> "
LinkNames == {<<"/","a"," ","-",">"," ","/","b">>, <<"/","a"," ","-",">"," ","/","b","'">>, <<"'","/","a","'"," ","-",">"," ","'","/","b","'">>, <<"'","/","x"," ","-",">"," ","y","'"," ","-",">"," ","'","/","b","'">>}

NameFields == FileNames \cup LinkNames

\* user=%U group=%G mode=%A atime=%X mtime=%Y ctime=%Z size=%s %N
StatLine(flag, perm, namefield) ==
    <<"u","s","e","r","=","r","o","o","t"," ","g","r","o","u","p","=","w","h","e","e","l"," ","m","o","d","e","=">> \o <<flag>> \o perm
        \o <<" ","a","t","i","m","e","=","1"," ","m","t","i","m","e","=","2","0"," ","c","t","i","m","e","=","3","0","0"," ","s","i","z","e","=","4","0","9","6"," ">> \o namefield

\* the lines either stat prints: a link has a link's name field
StatLines ==
    {StatLine(fl, pm, nf) : fl \in Flags \ {"l"}, pm \in Perms, nf \in FileNames}
        \cup {StatLine("l", pm, nf) : pm \in Perms, nf \in LinkNames}

HexDigest(n) == [i \in 1..n |-> IF i % 2 = 1 THEN "a" ELSE "9"]

HexLen(f) ==
    CASE f = "Sha1File" -> Sha1HexLen
      [] f = "Sha256File" -> Sha256HexLen
      [] f = "Md5File" -> Md5HexLen

\* the algorithm name a BSD tool prints for the fact
Algo(f) ==
    CASE f = "Sha1File" -> <<"S","H","A","1">>
      [] f = "Sha256File" -> <<"S","H","A","2","5","6">>
      [] f = "Md5File" -> <<"M","D","5">>

\* '<digest>  <path>', the line of sha1sum, shasum, sha256sum and md5sum
GnuLine(digest, path) == digest \o <<" "," ">> \o path

\* '<ALGO> (<path>) = <digest>', the line of sha1, sha256 and md5
BsdLine(algo, digest, path) == algo \o <<" ","(">> \o path \o <<")"," ","="," ">> \o digest

\* lines a checksum parser may be handed: either style, any algorithm name,
\* any of the paths, a digest of the fact's length or one character short
ChecksumLines(f) ==
    LET ds == {HexDigest(HexLen(f)), HexDigest(HexLen(f) - 1)}
    IN  {GnuLine(d, q) : d \in ds, q \in Paths}
            \cup {BsdLine(Algo(g), d, q) : g \in ChecksumFacts, d \in ds, q \in Paths}

SeqsUpTo(S, n) == UNION {[1..k -> S] : k \in 0..n}

\* lines the search command may print: grep's matching lines (a file may
\* hold any line, the sentinel text included) or the echoed sentinel
FindLines == {Sentinel(escape_unix_path(p)) : p \in Paths} \cup {<<"n","e","e","d","l","e">>}

\* every output a parser of fact f may be handed
Outputs(f) ==
    IF f \in StatFacts THEN {<<>>} \cup {<<l>> : l \in StatLines}
    ELSE IF f \in ChecksumFacts THEN {<<>>} \cup {<<l>> : l \in ChecksumLines(f)}
    ELSE SeqsUpTo(FindLines, MaxLines)

\* the outputs of the command built for path p, run on a host where the
\* tools print p as given
ExecOutputs(f, p) ==
    IF f \in ChecksumFacts
    THEN {<<>>, <<GnuLine(HexDigest(HexLen(f)), p)>>,
          <<BsdLine(Algo(f), HexDigest(HexLen(f)), p)>>}
    ELSE {<<>>, <<Sentinel(escape_unix_path(p))>>, <<<<"n","e","e","d","l","e">>>>,
          <<<<"n","e","e","d","l","e">>, <<"n","e","e","d","l","e">>>>}

-----------------------------------------------------------------------------
(* The callers: command(path), the transport runs the command, process(output) *)

Callers == {"c1", "c2"}

Idle == [pc |-> "idle", path |-> <<>>, out |-> <<>>, res |-> None]

\* File.command (Link, Directory and Socket inherit it): no attribute is set
File_command(c, p) ==
    /\ fact \in StatFacts
    /\ call[c].pc = "idle"
    /\ call' = [call EXCEPT ![c] = [pc |-> "built", path |-> p, out |-> <<>>, res |-> None]]
    /\ UNCHANGED <<fact, name, modeIn, modeOut, sh>>

\* Sha1File.command, Sha256File.command, Md5File.command: self.name = name
Checksum_command(c, p) ==
    /\ fact \in ChecksumFacts
    /\ call[c].pc = "idle"
    /\ name' = PyStr(escape_unix_path(p))
    /\ call' = [call EXCEPT ![c] = [pc |-> "built", path |-> p, out |-> <<>>, res |-> None]]
    /\ UNCHANGED <<fact, modeIn, modeOut, sh>>

\* FindInFile.command: self.name = name
FindInFile_command(c, p) ==
    /\ fact = "FindInFile"
    /\ call[c].pc = "idle"
    /\ name' = PyStr(escape_unix_path(p))
    /\ call' = [call EXCEPT ![c] = [pc |-> "built", path |-> p, out |-> <<>>, res |-> None]]
    /\ UNCHANGED <<fact, modeIn, modeOut, sh>>

\* fact.process(output) for the caller's command
Process(c, output) ==
    /\ call[c].pc = "built"
    /\ call' = [call EXCEPT ![c] =
                   [pc |-> "done", path |-> call[c].path, out |-> output,
                    res |-> process(fact, IF name.tag = "None" THEN <<>> ELSE name.val, output)]]
    /\ UNCHANGED <<fact, name, modeIn, modeOut, sh>>

\* the caller consumes the result; the instance stays in the registry
Discard(c) ==
    /\ call[c].pc = "done"
    /\ call' = [call EXCEPT ![c] = Idle]
    /\ UNCHANGED <<fact, name, modeIn, modeOut, sh>>

\* no shell is running
NoShell ==
    [pc |-> 0, sub |-> 0, status |-> 0, stdout |-> <<>>, ran |-> <<>>,
     host |-> <<>>, exit |-> 0]

Init ==
    /\ fact \in Facts
    /\ name = None
    /\ call = [c \in Callers |-> Idle]
    /\ modeIn = <<>>
    /\ modeOut = None
    /\ sh = NoShell

\* one caller at a time, handed any output
Next ==
    \/ \E p \in Paths : File_command("c1", p)
    \/ \E p \in Paths : Checksum_command("c1", p)
    \/ \E p \in Paths : FindInFile_command("c1", p)
    \/ \E output \in Outputs(fact) : Process("c1", output)
    \/ Discard("c1")

Spec == Init /\ [][Next]_vars

InitInterleaved ==
    /\ fact \in NamedFacts
    /\ name = None
    /\ call = [c \in Callers |-> Idle]
    /\ modeIn = <<>>
    /\ modeOut = None
    /\ sh = NoShell

\* two callers of the same instance, each handed an output of its own command
NextInterleaved ==
    \E c \in Callers :
        \/ \E p \in Paths : Checksum_command(c, p)
        \/ \E p \in Paths : FindInFile_command(c, p)
        \/ \E output \in ExecOutputs(fact, call[c].path) : Process(c, output)
        \/ Discard(c)

SpecInterleaved == InitInterleaved /\ [][NextInterleaved]_vars

-----------------------------------------------------------------------------
(* _parse_mode on its own *)

\* the eight canonical groups and eight that are not: a setuid and a sticky
\* group, letters out of position, a repeated letter, upper case
ModeGroups ==
    {<<"r","w","x">>, <<"r","w","-">>, <<"r","-","x">>, <<"r","-","-">>, <<"-","w","x">>, <<"-","w","-">>, <<"-","-","x">>, <<"-","-","-">>,
     <<"r","w","s">>, <<"-","-","t">>, <<"x","w","r">>, <<"w","r","-">>, <<"r","r","r">>, <<"-","r","-">>, <<"R","W","X">>, <<"r","-","S">>}

ModeStrings == {a \o b \o c : a \in ModeGroups, b \in ModeGroups, c \in ModeGroups}

InitMode ==
    /\ fact = "File"
    /\ name = None
    /\ call = [c \in Callers |-> Idle]
    /\ modeIn \in ModeStrings
    /\ modeOut = None
    /\ sh = NoShell

Encode ==
    /\ modeOut.tag = "None"
    /\ modeOut' = PyInt(_parse_mode(modeIn))
    /\ UNCHANGED <<fact, name, call, modeIn, sh>>

NextMode == Encode

SpecMode == InitMode /\ [][NextMode]_vars

-----------------------------------------------------------------------------
(* The command File.command builds, as the shell evaluates it:              *)
(*   stat P 1> /dev/null 2> /dev/null && (LINUX P 2> /dev/null || BSD P)    *)
(*       || true                                                            *)
(* An and-or list runs left to right; the command after && runs when the    *)
(* status so far is 0, the command after || when it is not, and a skipped   *)
(* command leaves the status as it is.                                      *)

MaxStatus == 2     \* exit statuses are 0..MaxStatus

StatCommand_no_true ==
    << [op |-> "", run |-> "probe", stdout |-> FALSE],
       [op |-> "&&", run |-> "subshell", stdout |-> TRUE] >>

StatCommand ==
    << [op |-> "", run |-> "probe", stdout |-> FALSE],      \* 1> /dev/null
       [op |-> "&&", run |-> "subshell", stdout |-> TRUE],
       [op |-> "||", run |-> "true", stdout |-> TRUE] >>

\* ({linux_stat_command} {path} 2> /dev/null || {bsd_stat_command} {path})
StatSubshell ==
    << [op |-> "", run |-> "linux_stat", stdout |-> TRUE],
       [op |-> "||", run |-> "bsd_stat", stdout |-> TRUE] >>

\* the list the shell is in, and the item it is at
ShList == IF sh.sub = 0 THEN StatCommand ELSE StatSubshell
ShAt == IF sh.sub = 0 THEN sh.pc ELSE sh.sub
ShItem == ShList[ShAt]

ShRuns(item) ==
    \/ item.op = ""
    \/ item.op = "&&" /\ sh.status = 0
    \/ item.op = "||" /\ sh.status # 0

ShAdvance(s) ==
    IF s.sub = 0 THEN [s EXCEPT !.pc = @ + 1] ELSE [s EXCEPT !.sub = @ + 1]

\* exit status of a simple command on this host
ShStatus(cmd) == IF cmd = "true" THEN 0 ELSE sh.host[cmd]

InitShell ==
    /\ fact = "File"
    /\ name = None
    /\ call = [c \in Callers |-> Idle]
    /\ modeIn = <<>>
    /\ modeOut = None
    /\ \E h \in [{"probe", "linux_stat", "bsd_stat"} -> 0..MaxStatus] :
           sh = [pc |-> 1, sub |-> 0, status |-> 0, stdout |-> <<>>, ran |-> <<>>,
                 host |-> h, exit |-> -1]

ShActive == sh.exit = -1 /\ ShAt <= Len(ShList)

\* a simple command runs: a stat that succeeds prints its line
ShRun ==
    /\ ShActive
    /\ ShItem.run # "subshell"
    /\ ShRuns(ShItem)
    /\ LET st == ShStatus(ShItem.run)
           prints == st = 0 /\ ShItem.stdout /\ ShItem.run # "true"
       IN  sh' = ShAdvance([sh EXCEPT
                     !.status = st,
                     !.ran = Append(@, ShItem.run),
                     !.stdout = IF prints THEN Append(@, ShItem.run) ELSE @])
    /\ UNCHANGED <<fact, name, call, modeIn, modeOut>>

\* the command is skipped by short circuit
ShSkip ==
    /\ ShActive
    /\ ~ShRuns(ShItem)
    /\ sh' = ShAdvance(sh)
    /\ UNCHANGED <<fact, name, call, modeIn, modeOut>>

\* ( ... ) starts
ShEnter ==
    /\ ShActive
    /\ ShItem.run = "subshell"
    /\ ShRuns(ShItem)
    /\ sh' = [sh EXCEPT !.sub = 1]
    /\ UNCHANGED <<fact, name, call, modeIn, modeOut>>

\* ( ... ) ends: its status is that of the last command run in it
ShLeave ==
    /\ sh.exit = -1
    /\ sh.sub > Len(StatSubshell)
    /\ sh' = [sh EXCEPT !.sub = 0, !.pc = @ + 1]
    /\ UNCHANGED <<fact, name, call, modeIn, modeOut>>

\* the list ends: the command exits with the status so far
ShExit ==
    /\ sh.exit = -1
    /\ sh.sub = 0
    /\ sh.pc > Len(StatCommand)
    /\ sh' = [sh EXCEPT !.exit = sh.status]
    /\ UNCHANGED <<fact, name, call, modeIn, modeOut>>

NextShell == ShRun \/ ShSkip \/ ShEnter \/ ShLeave \/ ShExit

SpecShell == InitShell /\ [][NextShell]_vars


-----------------------------------------------------------------------------
(* Properties *)

Done(c) == call[c].pc = "done"

StatLineOf(c, fl, pm, nf) == call[c].out = <<StatLine(fl, pm, nf)>>

\* C1: for every fact with an absent channel, parsing an empty sequence of
\* output lines raises nothing and returns the absent value (None or False),
\* which for FindInFile differs from the empty match list of the sentinel
\* line.
C1_EmptyOutputIsAbsent ==
    \A c \in Callers :
        (Done(c) /\ call[c].out = <<>>) => call[c].res.tag \in {"None", "False"}

\* the line reports digest d against exactly the path p, in either style
ReportsDigestFor(line, d, p) ==
    \/ line = GnuLine(d, p)
    \/ \E g \in ChecksumFacts : line = BsdLine(Algo(g), d, p)

\* C2: a checksum parser returns a digest only if the single output line
\* reports that digest against exactly the requested path; a line for any
\* other path string yields absent, also when the requested path holds a
\* character that is special in a regular expression.
C2_DigestOnlyForExactPath ==
    \A c \in Callers :
        (Done(c) /\ fact \in ChecksumFacts /\ Len(call[c].out) = 1
             /\ call[c].res.tag = "str")
            => ReportsDigestFor(call[c].out[1], call[c].res.val, call[c].path)

\* C3: when two callers interleave command and process on the same fact,
\* each process returns what it returns when its own command/process pair
\* runs alone.
C3_InterleavedCallsIndependent ==
    \A c \in Callers :
        Done(c) =>
            LET alone == process(fact, escape_unix_path(call[c].path), call[c].out)
            IN  call[c].res.tag = alone.tag /\ call[c].res = alone

\* C4: on a well-formed stat line whose mode starts with one of the seven
\* type flags, a stat fact returns the metadata if and only if the type the
\* flag maps to is the fact's declared type, and returns absent (False)
\* otherwise.
C4_MetadataIffTypeMatches ==
    \A c \in Callers : \A fl \in Flags, pm \in Perms, nf \in NameFields :
        (Done(c) /\ fact \in StatFacts /\ StatLineOf(c, fl, pm, nf))
            => IF FLAG_TO_TYPE[fl] = type(fact)
               THEN call[c].res.tag = "dict"
               ELSE call[c].res.tag = "False"

\* a group is canonical when each position holds its own letter or a dash
Canonical(g) == g[1] \in {"r", "-"} /\ g[2] \in {"w", "-"} /\ g[3] \in {"x", "-"}

\* 4*r + 2*w + 1*x for a canonical group, 0 for any other
GroupDigit(g) ==
    IF Canonical(g)
    THEN (IF g[1] = "r" THEN 4 ELSE 0) + (IF g[2] = "w" THEN 2 ELSE 0)
             + (IF g[3] = "x" THEN 1 ELSE 0)
    ELSE 0

\* C5: _parse_mode on a 9-character string returns the integer whose decimal
\* digits are, for owner, group and other in turn, 4*r + 2*w + 1*x of a
\* canonical group and 0 of a group that is not canonical, so that such a
\* group changes its own digit only; rwxr-xr-- encodes as 754.
C5_ParseModeDigits ==
    modeOut.tag = "int" =>
        /\ modeOut.val = 100 * GroupDigit(SubSeq(modeIn, 1, 3))
                             + 10 * GroupDigit(SubSeq(modeIn, 4, 6))
                             + GroupDigit(SubSeq(modeIn, 7, 9))
        /\ modeIn = <<"r","w","x","r","-","x","r","-","-">> => modeOut.val = 754

\* C5 witness: a mode with a non-canonical group in the middle was encoded
C5_Witness == modeIn = <<"r","w","x","r","w","s","r","-","x">> /\ modeOut.tag = "int" /\ modeOut.val = 705

\* C6: each checksum fact returns the digest of the BSD-style line
\* '<ALGO> (<path>) = <digest>' that carries its own algorithm name, the
\* requested path and a digest of its own length; Md5File does so for
\* 'MD5 (<path>) = <32 characters>'.
C6_BsdLineOfOwnAlgorithm ==
    \A c \in Callers :
        (Done(c) /\ fact \in ChecksumFacts
             /\ call[c].out = <<BsdLine(Algo(fact), HexDigest(HexLen(fact)), call[c].path)>>)
            => (call[c].res.tag = "str" /\ call[c].res.val = HexDigest(HexLen(fact)))

Arrow == <<" ","-",">"," ">>

ArrowsIn(s) == {i \in 1..Len(s) : i + 3 <= Len(s) /\ SubSeq(s, i, i + 3) = Arrow}

\* the text after the " -> " of a name field that holds exactly one
AfterArrow(nf) == SubSeq(nf, (CHOOSE i \in ArrowsIn(nf) : TRUE) + 4, Len(nf))

HasLinkTarget(c) == <<"l","i","n","k","_","t","a","r","g","e","t">> \in DOMAIN call[c].res.val

LinkTargetOf(c) == call[c].res.val[<<"l","i","n","k","_","t","a","r","g","e","t">>].val

\* t is s with every leading and every trailing quote character removed
QuotesRemoved(s, t) ==
    /\ \E a, b \in 0..Len(s) : s = Rep("'", a) \o t \o Rep("'", b)
    /\ t # <<>> => (t[1] # "'" /\ t[Len(t)] # "'")

\* C7 as stated: a returned FileMetadata carries a link target if and only
\* if its type is link, and on a name field 'name -> target' followed by a
\* trailing quote the link target is the text after ' -> ' with that one
\* trailing quote removed.
C7_LinkTargetTrailingQuoteOnly ==
    \A c \in Callers : \A fl \in Flags, pm \in Perms, nf \in NameFields :
        (Done(c) /\ fact \in StatFacts /\ call[c].res.tag = "dict"
             /\ StatLineOf(c, fl, pm, nf))
            => /\ HasLinkTarget(c) <=> fact = "Link"
               /\ (fact = "Link" /\ nf[Len(nf)] = "'")
                      => LinkTargetOf(c)
                             = SubSeq(AfterArrow(nf), 1, Len(AfterArrow(nf)) - 1)

\* C7 amended: a returned FileMetadata carries a link target if and only if
\* its type is link, and the link target is the text after the ' -> ' of the
\* name field with every leading and trailing quote character removed.
C7_LinkTargetQuotesStripped ==
    \A c \in Callers : \A fl \in Flags, pm \in Perms, nf \in NameFields :
        (Done(c) /\ fact \in StatFacts /\ call[c].res.tag = "dict"
             /\ StatLineOf(c, fl, pm, nf))
            => /\ HasLinkTarget(c) <=> fact = "Link"
               /\ fact = "Link"
                      => /\ Cardinality(ArrowsIn(nf)) = 1
                         /\ QuotesRemoved(AfterArrow(nf), LinkTargetOf(c))

\* C7 witness: Link parsed a line as GNU stat prints it, target quoted on
\* both sides
C7_Witness ==
    /\ Done("c1") /\ fact = "Link"
    /\ StatLineOf("c1", "l", <<"r","w","x","r","w","x","r","w","x">>, <<"'","/","a","'"," ","-",">"," ","'","/","b","'">>)
    /\ call["c1"].res.tag = "dict"
    /\ LinkTargetOf("c1") = <<"/","b">>

ModeOf(c) == call[c].res.val[<<"m","o","d","e">>].val

\* C8 as stated: the mode of every returned FileMetadata is in 0..511.
C8_ModeWithin511 ==
    \A c \in Callers :
        (Done(c) /\ fact \in StatFacts /\ call[c].res.tag = "dict")
            => ModeOf(c) \in 0..511

\* C8 amended: the mode of every returned FileMetadata is an integer in
\* 0..777 whose three decimal digits are each in 0..7 (the octal digits
\* written in decimal).
C8_ModeOctalDigitsInDecimal ==
    \A c \in Callers :
        (Done(c) /\ fact \in StatFacts /\ call[c].res.tag = "dict")
            => /\ ModeOf(c) \in 0..777
               /\ ModeOf(c) % 10 <= 7
               /\ (ModeOf(c) \div 10) % 10 <= 7
               /\ ModeOf(c) \div 100 <= 7

\* C8 witness: a file with every permission bit set was parsed
C8_Witness ==
    /\ Done("c1") /\ fact = "File"
    /\ StatLineOf("c1", "-", <<"r","w","x","r","w","x","r","w","x">>, <<"/","a">>)
    /\ call["c1"].res.tag = "dict"
    /\ ModeOf("c1") = 777

\* C9: FindInFile returns the empty match list exactly when the output is
\* the single sentinel line of the path given to command, and returns every
\* other non-empty output unchanged, whatever its first line is.
C9_EmptyListOnlyForLoneSentinel ==
    \A c \in Callers :
        (Done(c) /\ fact = "FindInFile" /\ call[c].out # <<>>)
            => /\ call[c].res.tag = "list"
               /\ call[c].res.val =
                      IF call[c].out = <<Sentinel(escape_unix_path(call[c].path))>>
                      THEN <<>>
                      ELSE call[c].out

Ran(cmd) == \E i \in 1..Len(sh.ran) : sh.ran[i] = cmd

\* C10: the stat command exits with status 0 whatever the probe and the two
\* formatted stats exit with; when the probe fails neither formatted stat
\* runs and nothing is printed; the BSD stat runs only after the probe
\* succeeded and the GNU stat failed.
C10_StatCommandShortCircuit ==
    /\ sh.exit # -1 => sh.exit = 0
    /\ sh.host["probe"] # 0
           => (~Ran("linux_stat") /\ ~Ran("bsd_stat") /\ sh.stdout = <<>>)
    /\ Ran("bsd_stat")
           => /\ sh.host["probe"] = 0 /\ sh.host["linux_stat"] # 0
              /\ SubSeq(sh.ran, 1, 3) = <<"probe", "linux_stat", "bsd_stat">>

\* C10 witness: the command ended after both formatted stats failed
C10_Witness ==
    /\ sh.exit = 0
    /\ sh.ran = <<"probe", "linux_stat", "bsd_stat", "true">>
    /\ sh.host["bsd_stat"] # 0
=============================================================================
